---- MODULE Spec2Model ----
(***************************************************************************)
(* Model of the Fornaxian log package (src/log.go): a process-wide         *)
(* severity threshold, five level-named entry points, the formatter        *)
(* `print`, the io.Writer adapter and the two level setters.               *)
(*                                                                         *)
(* Strings are sequences of code points.  A call stack is a sequence of    *)
(* frames, innermost first; every frame records the file it lives in and   *)
(* the line it is currently executing, which is what runtime.Caller        *)
(* reports for it.                                                         *)
(***************************************************************************)
EXTENDS Integers, Sequences, FiniteSets, TLC

\* ---------------------------------------------------------------- bounds
MaxPathLen == 32      \* longest user source path drawn
LogGoPathLen == 34    \* length of the path under which log.go was compiled
MaxUserLine == 2      \* user call sites are on lines 1..MaxUserLine
MaxArgSlack == 2      \* setters are fed LevelNone-slack .. LevelTrace+slack
MaxBuf == 2           \* longest buffer handed to Write
NumG == 2             \* concurrent callers
MaxOut == 4           \* writes recorded in the concurrent output

\* ------------------------------------------------------------- constants
LevelTrace == 5
LevelDebug == 4
LevelInfo == 3
LevelWarning == 2
LevelError == 1
LevelNone == 0
PathCutoff == 30      \* var cutoff = 30, also the width of %30s
Ellipsis == 8230      \* the rune U+2026 prepended to the path
Space == 32           \* the padding rune of %30s

VARIABLES logLevel, defaultLevel, Colours, out, call, pc, clog

vars == <<logLevel, defaultLevel, Colours, out, call, pc, clog>>

\* ---------------------------------------------------------------- inputs
UserPath(n) == [i \in 1..n |-> 1000 + i]
\* lengths around the cutoff, plus the shortest and the longest
UserPathLens == {1, PathCutoff - 1, PathCutoff, PathCutoff + 1, MaxPathLen}
UserPaths == {UserPath(n) : n \in UserPathLens}
LogGoPath == [i \in 1..LogGoPathLen |-> 2000 + i]
UserLines == 1..MaxUserLine
LevelArgs == (LevelNone - MaxArgSlack)..(LevelTrace + MaxArgSlack)
Msgs == {<<109, 37, 118>>}
NArgs == {0, 1}
Bytes == {104, 105}
Buffers == UNION {[1..n -> Bytes] : n \in 0..MaxBuf}

\* ---------------------------------------------------------------- frames
UserFrame(path, line) == [pkg |-> "user", func |-> "caller", file |-> path, line |-> line]
LogFrame(func, line) == [pkg |-> "log", func |-> func, file |-> LogGoPath, line |-> line]

\* runtime.Caller(skip) seen from the function whose frame is stk[1]
Caller(stk, skip) ==
    IF skip + 1 <= Len(stk)
    THEN stk[skip + 1]
    ELSE [pkg |-> "none", func |-> "", file |-> <<>>, line |-> 0]

\* ------------------------------------------------------------- formatter
RECURSIVE Spaces(_)
Spaces(n) == IF n <= 0 THEN <<>> ELSE <<Space>> \o Spaces(n - 1)

\* %30s: right-align in a field of PathCutoff runes, never truncate
PadLeft(s) == Spaces(PathCutoff - Len(s)) \o s

\* "…"+string(fn[len(fn)-cutoff:]) with cutoff = min(30, len(fn))
PathField(fn) ==
    LET cutoff == IF Len(fn) < PathCutoff THEN Len(fn) ELSE PathCutoff
    IN  <<Ellipsis>> \o SubSeq(fn, Len(fn) - cutoff + 1, Len(fn))

LevelTag(colour, lvl) ==
    IF Colours THEN <<"ESC[1m", "ESC[", colour, "m", lvl, "ESC[0m">> ELSE <<lvl>>

\* print is entered with the stack of its caller; it pushes its own frame
print(stk, colour, lvl, msgFmt, nargs) ==
    LET own == <<LogFrame("print", 148)>> \o stk
        c   == Caller(own, 2)
    IN  <<[stream |-> "stdout", kind |-> "line", lvl |-> lvl,
           tag |-> LevelTag(colour, lvl),
           fn |-> c.file, pkg |-> c.pkg,
           field |-> PadLeft(PathField(c.file)), line |-> c.line,
           msg |-> msgFmt,
           via |-> IF nargs = 0 THEN "Println" ELSE "Printf"]>>

\* debug.PrintStack(): os.Stderr.Write(debug.Stack())
PrintStack(stk) ==
    <<[stream |-> "stderr", kind |-> "stack", lvl |-> "", tag |-> <<>>,
       fn |-> <<>>, pkg |-> "", field |-> <<>>, line |-> Len(stk),
       msg |-> <<>>, via |-> "Write"]>>

\* ---------------------------------------------------------- entry points
\* each is applied to the stack of its caller and yields what it writes
Trace(stk, msgFmt, nargs) ==
    IF logLevel < LevelTrace THEN <<>>
    ELSE print(<<LogFrame("Trace", 87)>> \o stk, "95", "TRC", msgFmt, nargs)

Debug(stk, msgFmt, nargs) ==
    IF logLevel < LevelDebug THEN <<>>
    ELSE print(<<LogFrame("Debug", 95)>> \o stk, "96", "DBG", msgFmt, nargs)

Info_Inverted(stk, msgFmt, nargs) ==
    IF logLevel <= LevelInfo THEN <<>>
    ELSE print(<<LogFrame("Info", 103)>> \o stk, "92", "INF", msgFmt, nargs)

Info(stk, msgFmt, nargs) ==
    IF logLevel < LevelInfo THEN <<>>
    ELSE print(<<LogFrame("Info", 103)>> \o stk, "92", "INF", msgFmt, nargs)

Warn(stk, msgFmt, nargs) ==
    IF logLevel < LevelWarning THEN <<>>
    ELSE print(<<LogFrame("Warn", 111)>> \o stk, "93", "WRN", msgFmt, nargs)

Error(stk, msgFmt, nargs) ==
    IF logLevel < LevelError THEN <<>>
    ELSE LET own == <<LogFrame("Error", 119)>> \o stk
         IN  print(own, "91", "ERR", msgFmt, nargs) \o PrintStack(own)

InvalidLevelMsg == <<73, 37, 118>>

\* --------------------------------------------------------------- setters
SetLogLevel_Clamped(stk, level) ==
    IF level < LevelNone \/ level > LevelTrace
    THEN [logLevel |-> IF level < LevelNone THEN LevelNone ELSE LevelTrace,
          out |-> Error(<<LogFrame("SetLogLevel", 62)>> \o stk, InvalidLevelMsg, 1)]
    ELSE [logLevel |-> level, out |-> <<>>]

SetLogLevel_NoReturn(stk, level) ==
    IF level < LevelNone \/ level > LevelTrace
    THEN [logLevel |-> level,
          out |-> Error(<<LogFrame("SetLogLevel", 62)>> \o stk, InvalidLevelMsg, 1)]
    ELSE [logLevel |-> level, out |-> <<>>]

SetLogLevel(stk, level) ==
    IF level < LevelNone \/ level > LevelTrace
    THEN [logLevel |-> logLevel,
          out |-> Error(<<LogFrame("SetLogLevel", 62)>> \o stk, InvalidLevelMsg, 1)]
    ELSE [logLevel |-> level, out |-> <<>>]

SetDefaultLevel_TraceAllowed(stk, level) ==
    IF level < LevelNone \/ level > LevelTrace
    THEN [defaultLevel |-> defaultLevel,
          out |-> Error(<<LogFrame("SetDefaultLevel", 76)>> \o stk, InvalidLevelMsg, 1)]
    ELSE [defaultLevel |-> level, out |-> <<>>]

SetDefaultLevel(stk, level) ==
    IF level < LevelNone \/ level > LevelDebug
    THEN [defaultLevel |-> defaultLevel,
          out |-> Error(<<LogFrame("SetDefaultLevel", 76)>> \o stk, InvalidLevelMsg, 1)]
    ELSE [defaultLevel |-> level, out |-> <<>>]

\* --------------------------------------------------------------- adapter
NilRet == [n |-> 0, err |-> "nil"]

Write_Swapped(stk, p) ==
    LET own(l) == <<LogFrame("Write", l)>> \o stk
        ret    == [n |-> Len(p), err |-> "nil"]
    IN  CASE defaultLevel = LevelDebug ->
               [invoked |-> <<"Debug">>, out |-> Debug(own(131), p, 0), ret |-> ret]
          [] defaultLevel = LevelInfo ->
               [invoked |-> <<"Warn">>, out |-> Warn(own(133), p, 0), ret |-> ret]
          [] defaultLevel = LevelWarning ->
               [invoked |-> <<"Info">>, out |-> Info(own(135), p, 0), ret |-> ret]
          [] defaultLevel = LevelError ->
               [invoked |-> <<"Error">>, out |-> Error(own(137), p, 0), ret |-> ret]
          [] OTHER ->
               [invoked |-> <<>>, out |-> <<>>, ret |-> ret]

Write_CountsEmitted(stk, p) ==
    LET own(l) == <<LogFrame("Write", l)>> \o stk
        ret(o) == [n |-> IF o = <<>> THEN 0 ELSE Len(p), err |-> "nil"]
    IN  CASE defaultLevel = LevelDebug ->
               [invoked |-> <<"Debug">>, out |-> Debug(own(131), p, 0),
                ret |-> ret(Debug(own(131), p, 0))]
          [] defaultLevel = LevelInfo ->
               [invoked |-> <<"Info">>, out |-> Info(own(133), p, 0),
                ret |-> ret(Info(own(133), p, 0))]
          [] defaultLevel = LevelWarning ->
               [invoked |-> <<"Warn">>, out |-> Warn(own(135), p, 0),
                ret |-> ret(Warn(own(135), p, 0))]
          [] defaultLevel = LevelError ->
               [invoked |-> <<"Error">>, out |-> Error(own(137), p, 0),
                ret |-> ret(Error(own(137), p, 0))]
          [] OTHER ->
               [invoked |-> <<>>, out |-> <<>>, ret |-> ret(<<>>)]

\* string(p) copies the bytes; the message is passed without arguments
Write(stk, p) ==
    LET own(l) == <<LogFrame("Write", l)>> \o stk
        ret    == [n |-> Len(p), err |-> "nil"]
    IN  CASE defaultLevel = LevelDebug ->
               [invoked |-> <<"Debug">>, out |-> Debug(own(131), p, 0), ret |-> ret]
          [] defaultLevel = LevelInfo ->
               [invoked |-> <<"Info">>, out |-> Info(own(133), p, 0), ret |-> ret]
          [] defaultLevel = LevelWarning ->
               [invoked |-> <<"Warn">>, out |-> Warn(own(135), p, 0), ret |-> ret]
          [] defaultLevel = LevelError ->
               [invoked |-> <<"Error">>, out |-> Error(own(137), p, 0), ret |-> ret]
          [] OTHER ->
               [invoked |-> <<>>, out |-> <<>>, ret |-> ret]

\* ------------------------------------------------- sequential operations
G == 1..NumG
IdlePc == [g \in G |-> [at |-> "idle", lvl |-> ""]]

CallRec(op, level, p, invoked, ret) ==
    [op |-> op, level |-> level, p |-> p, T0 |-> logLevel, D0 |-> defaultLevel,
     invoked |-> invoked, ret |-> ret]

Init ==
    /\ logLevel = LevelDebug
    /\ defaultLevel = LevelDebug
    /\ Colours = FALSE
    /\ out = <<>>
    /\ call = CallRec("init", 0, <<>>, <<>>, NilRet)
    /\ pc = IdlePc
    /\ clog = <<>>

CallTrace ==
    \E path \in UserPaths, line \in UserLines, m \in Msgs, k \in NArgs :
        /\ out' = Trace(<<UserFrame(path, line)>>, m, k)
        /\ call' = CallRec("Trace", LevelTrace, <<>>, <<>>, NilRet)
        /\ UNCHANGED <<logLevel, defaultLevel, Colours, pc, clog>>

CallDebug ==
    \E path \in UserPaths, line \in UserLines, m \in Msgs, k \in NArgs :
        /\ out' = Debug(<<UserFrame(path, line)>>, m, k)
        /\ call' = CallRec("Debug", LevelDebug, <<>>, <<>>, NilRet)
        /\ UNCHANGED <<logLevel, defaultLevel, Colours, pc, clog>>

CallInfo ==
    \E path \in UserPaths, line \in UserLines, m \in Msgs, k \in NArgs :
        /\ out' = Info(<<UserFrame(path, line)>>, m, k)
        /\ call' = CallRec("Info", LevelInfo, <<>>, <<>>, NilRet)
        /\ UNCHANGED <<logLevel, defaultLevel, Colours, pc, clog>>

CallWarn ==
    \E path \in UserPaths, line \in UserLines, m \in Msgs, k \in NArgs :
        /\ out' = Warn(<<UserFrame(path, line)>>, m, k)
        /\ call' = CallRec("Warn", LevelWarning, <<>>, <<>>, NilRet)
        /\ UNCHANGED <<logLevel, defaultLevel, Colours, pc, clog>>

CallError ==
    \E path \in UserPaths, line \in UserLines, m \in Msgs, k \in NArgs :
        /\ out' = Error(<<UserFrame(path, line)>>, m, k)
        /\ call' = CallRec("Error", LevelError, <<>>, <<>>, NilRet)
        /\ UNCHANGED <<logLevel, defaultLevel, Colours, pc, clog>>

CallSetLogLevel ==
    \E path \in UserPaths, line \in UserLines, level \in LevelArgs :
        LET r == SetLogLevel(<<UserFrame(path, line)>>, level)
        IN  /\ logLevel' = r.logLevel
            /\ out' = r.out
            /\ call' = CallRec("SetLogLevel", level, <<>>, <<>>, NilRet)
            /\ UNCHANGED <<defaultLevel, Colours, pc, clog>>

CallSetDefaultLevel ==
    \E path \in UserPaths, line \in UserLines, level \in LevelArgs :
        LET r == SetDefaultLevel(<<UserFrame(path, line)>>, level)
        IN  /\ defaultLevel' = r.defaultLevel
            /\ out' = r.out
            /\ call' = CallRec("SetDefaultLevel", level, <<>>, <<>>, NilRet)
            /\ UNCHANGED <<logLevel, Colours, pc, clog>>

CallWrite ==
    \E path \in UserPaths, line \in UserLines, p \in Buffers :
        LET r == Write(<<UserFrame(path, line)>>, p)
        IN  /\ out' = r.out
            /\ call' = CallRec("Write", 0, p, r.invoked, r.ret)
            /\ UNCHANGED <<logLevel, defaultLevel, Colours, pc, clog>>

SetColours ==
    \E b \in BOOLEAN :
        /\ Colours' = b
        /\ out' = <<>>
        /\ call' = CallRec("SetColours", 0, <<>>, <<>>, NilRet)
        /\ UNCHANGED <<logLevel, defaultLevel, pc, clog>>

Next ==
    \/ CallTrace
    \/ CallDebug
    \/ CallInfo
    \/ CallWarn
    \/ CallError
    \/ CallSetLogLevel
    \/ CallSetDefaultLevel
    \/ CallWrite
    \/ SetColours

Spec == Init /\ [][Next]_vars

\* ------------------------------------------------- concurrent operations
\* Several goroutines call the entry points at once.  The threshold test,
\* the write of the line (serialised by the log.Logger mutex) and the write
\* of the stack dump are separate steps of a caller; nothing in the package
\* holds a lock across two of them.
Tags == {"TRC", "DBG", "INF", "WRN", "ERR"}

TagLevel(t) ==
    CASE t = "TRC" -> LevelTrace
      [] t = "DBG" -> LevelDebug
      [] t = "INF" -> LevelInfo
      [] t = "WRN" -> LevelWarning
      [] t = "ERR" -> LevelError

Busy == {g \in G : pc[g].at # "idle"}
Room == Len(clog) + 2 * Cardinality(Busy) + 2 <= MaxOut

\* the threshold test of Trace/Debug/Info/Warn/Error
GoEnter(g) ==
    \E t \in Tags :
        /\ pc[g].at = "idle"
        /\ Room
        /\ pc' = IF logLevel < TagLevel(t)
                 THEN pc
                 ELSE [pc EXCEPT ![g] = [at |-> "print", lvl |-> t]]
        /\ UNCHANGED <<logLevel, defaultLevel, Colours, out, call, clog>>

GoPrint_NoStack(g) ==
    /\ pc[g].at = "print"
    /\ clog' = Append(clog, [g |-> g, kind |-> "line", lvl |-> pc[g].lvl, stream |-> "stdout"])
    /\ pc' = [pc EXCEPT ![g] = [at |-> "idle", lvl |-> ""]]
    /\ UNCHANGED <<logLevel, defaultLevel, Colours, out, call>>

\* the call of print; Error goes on to debug.PrintStack
GoPrint(g) ==
    /\ pc[g].at = "print"
    /\ clog' = Append(clog, [g |-> g, kind |-> "line", lvl |-> pc[g].lvl, stream |-> "stdout"])
    /\ pc' = [pc EXCEPT ![g] = IF pc[g].lvl = "ERR"
                               THEN [at |-> "stack", lvl |-> "ERR"]
                               ELSE [at |-> "idle", lvl |-> ""]]
    /\ UNCHANGED <<logLevel, defaultLevel, Colours, out, call>>

GoPrintStack(g) ==
    /\ pc[g].at = "stack"
    /\ clog' = Append(clog, [g |-> g, kind |-> "stack", lvl |-> "ERR", stream |-> "stderr"])
    /\ pc' = [pc EXCEPT ![g] = [at |-> "idle", lvl |-> ""]]
    /\ UNCHANGED <<logLevel, defaultLevel, Colours, out, call>>

\* SetLogLevel up to its return or its call of Error
GoSetLogLevel(g) ==
    \E level \in LevelArgs :
        /\ pc[g].at = "idle"
        /\ Room
        /\ IF level < LevelNone \/ level > LevelTrace
           THEN /\ pc' = IF logLevel < LevelError
                         THEN pc
                         ELSE [pc EXCEPT ![g] = [at |-> "print", lvl |-> "ERR"]]
                /\ UNCHANGED logLevel
           ELSE /\ logLevel' = level
                /\ UNCHANGED pc
        /\ UNCHANGED <<defaultLevel, Colours, out, call, clog>>

NextConc ==
    \/ \E g \in G : GoEnter(g)
    \/ \E g \in G : GoPrint(g)
    \/ \E g \in G : GoPrintStack(g)
    \/ \E g \in G : GoSetLogLevel(g)

SpecConc == Init /\ [][NextConc]_vars

\* ================================================================ claims
IsLine(e) == e.kind = "line"
Lines(o) == SelectSeq(o, IsLine)
EntryOps == {"Trace", "Debug", "Info", "Warn", "Error"}
OpTag(op) ==
    CASE op = "Trace" -> "TRC" [] op = "Debug" -> "DBG" [] op = "Info" -> "INF"
      [] op = "Warn" -> "WRN" [] op = "Error" -> "ERR"
OneLine(o, tag) == Len(Lines(o)) = 1 /\ o[1].kind = "line" /\ o[1].lvl = tag

\* C1: with threshold T, one call of the entry point of severity L emits
\* exactly one formatted line, carrying L's tag, if T >= L (T = L included)
\* and emits nothing at all if T < L.
C1_MonotonicGating ==
    call.op \in EntryOps =>
        IF call.T0 >= call.level THEN OneLine(out, OpTag(call.op)) ELSE out = <<>>

C1_Witness ==
    /\ call.op = "Info"
    /\ call.T0 = LevelInfo
    /\ OneLine(out, "INF")

\* C2 as stated: SetLogLevel with a level outside [None, Trace] leaves the
\* threshold unchanged and produces exactly one Error-level line, whatever
\* the threshold is.
C2_Original ==
    (call.op = "SetLogLevel" /\ (call.level < LevelNone \/ call.level > LevelTrace)) =>
        /\ logLevel = call.T0
        /\ OneLine(out, "ERR")

\* C2 amended: SetLogLevel with a level outside [None, Trace] leaves the
\* threshold unchanged; it produces exactly one Error-level line if the
\* threshold is at least Error and no output at all if the threshold is None.
C2_Amended ==
    (call.op = "SetLogLevel" /\ (call.level < LevelNone \/ call.level > LevelTrace)) =>
        /\ logLevel = call.T0
        /\ IF call.T0 >= LevelError THEN OneLine(out, "ERR") ELSE out = <<>>

C2_Witness ==
    /\ call.op = "SetLogLevel"
    /\ call.level > LevelTrace
    /\ call.T0 = LevelNone
    /\ logLevel = LevelNone
    /\ out = <<>>

\* C3 as stated: SetDefaultLevel with a level outside [None, Debug] leaves
\* the default level unchanged and produces exactly one Error-level line,
\* whatever the threshold is.
C3_Original ==
    (call.op = "SetDefaultLevel" /\ (call.level < LevelNone \/ call.level > LevelDebug)) =>
        /\ defaultLevel = call.D0
        /\ OneLine(out, "ERR")

\* C3 amended: SetDefaultLevel with a level outside [None, Debug] (Trace
\* included) leaves the default level unchanged; it produces exactly one
\* Error-level line if the threshold is at least Error and no output at all
\* if the threshold is None.
C3_Amended ==
    (call.op = "SetDefaultLevel" /\ (call.level < LevelNone \/ call.level > LevelDebug)) =>
        /\ defaultLevel = call.D0
        /\ IF call.T0 >= LevelError THEN OneLine(out, "ERR") ELSE out = <<>>

C3_Witness ==
    /\ call.op = "SetDefaultLevel"
    /\ call.level = LevelTrace
    /\ call.D0 = LevelInfo
    /\ defaultLevel = LevelInfo
    /\ OneLine(out, "ERR")

EntryOfLevel(l) ==
    CASE l = LevelDebug -> "Debug" [] l = LevelInfo -> "Info"
      [] l = LevelWarning -> "Warn" [] l = LevelError -> "Error"

\* C4 as stated: every call of Write invokes exactly one of Debug, Info,
\* Warn, Error, the one matching the default level at the time of the call,
\* for every value the default level can hold.
C4_Original ==
    call.op = "Write" =>
        /\ Len(call.invoked) = 1
        /\ call.D0 \in LevelError..LevelDebug
        /\ call.invoked[1] = EntryOfLevel(call.D0)

\* C4 amended: a call of Write invokes exactly one of Debug, Info, Warn,
\* Error, the one matching the default level at the time of the call, when
\* that level is in [Error, Debug]; when it is None, Write invokes no entry
\* point and writes nothing.
C4_Amended ==
    call.op = "Write" =>
        IF call.D0 \in LevelError..LevelDebug
        THEN /\ call.invoked = <<EntryOfLevel(call.D0)>>
             /\ out # <<>> => out[1].lvl = OpTag(EntryOfLevel(call.D0))
        ELSE call.invoked = <<>> /\ out = <<>>

C4_Witness ==
    /\ call.op = "Write"
    /\ call.D0 = LevelWarning
    /\ call.invoked = <<"Warn">>
    /\ OneLine(out, "WRN")

\* C5: Write(p) returns len(p) and a nil error for every buffer, threshold
\* and default level, also when nothing is emitted.
C5_WriteReturnsLen ==
    call.op = "Write" => call.ret = [n |-> Len(call.p), err |-> "nil"]

C5_Witness ==
    /\ call.op = "Write"
    /\ Len(call.p) > 0
    /\ call.invoked # <<>>
    /\ out = <<>>
    /\ call.ret.n = Len(call.p)

\* C6: an Error call that passes the threshold writes its line and then a
\* stack dump, and the dump goes to the same stream as the line.
C6_StackSameStream ==
    (call.op = "Error" /\ call.T0 >= LevelError) =>
        /\ Len(out) = 2
        /\ out[1].kind = "line"
        /\ out[2].kind = "stack"
        /\ out[2].stream = out[1].stream

\* C7 as stated: under concurrent callers no other write appears between an
\* Error line and its stack dump.
C7_Original ==
    \A i \in 1..Len(clog) :
        (clog[i].kind = "line" /\ clog[i].lvl = "ERR" /\ i < Len(clog)) =>
            (clog[i + 1].kind = "stack" /\ clog[i + 1].g = clog[i].g)

WritesOf(g) == LET By(e) == e.g = g IN SelectSeq(clog, By)

\* C7 amended: among the writes of one caller, every Error line is directly
\* followed by that caller's stack dump (or the caller is about to write
\* it); writes of other concurrent callers may come between the two.
C7_Amended ==
    \A g \in G :
        LET s == WritesOf(g)
        IN  \A i \in 1..Len(s) :
                (s[i].kind = "line" /\ s[i].lvl = "ERR") =>
                    IF i < Len(s) THEN s[i + 1].kind = "stack" ELSE pc[g].at = "stack"

C7_Witness ==
    \E i \in 1..Len(clog) :
        /\ i + 2 <= Len(clog)
        /\ clog[i].kind = "line" /\ clog[i].lvl = "ERR"
        /\ clog[i + 1].kind = "line" /\ clog[i + 1].g # clog[i].g
        /\ clog[i + 2].kind = "stack" /\ clog[i + 2].g = clog[i].g

RECURSIVE StripPad(_)
StripPad(s) == IF s # <<>> /\ s[1] = Space THEN StripPad(Tail(s)) ELSE s

\* C8: a caller path longer than 30 is emitted as the ellipsis followed by
\* its last 30 characters; a path of 30 or fewer is emitted verbatim, with
\* no ellipsis.
C8_PathTruncation ==
    \A i \in 1..Len(out) :
        out[i].kind = "line" =>
            LET fn == out[i].fn
                f  == StripPad(out[i].field)
            IN  IF Len(fn) > PathCutoff
                THEN f = <<Ellipsis>> \o SubSeq(fn, Len(fn) - PathCutoff + 1, Len(fn))
                ELSE f = fn

\* C9: the file and line of every emitted line is a call site in user code,
\* never a frame of the logging package.
C9_CallerIsUserCode ==
    \A i \in 1..Len(out) : out[i].kind = "line" => out[i].pkg = "user"

\* C10: the threshold is always in [None, Trace], the default level always
\* in [None, Debug], and each is changed only by its own setter.
C10_RangeInvariant ==
    /\ [](logLevel \in LevelNone..LevelTrace /\ defaultLevel \in LevelNone..LevelDebug)
    /\ [][/\ logLevel' # logLevel => call'.op = "SetLogLevel"
          /\ defaultLevel' # defaultLevel => call'.op = "SetDefaultLevel"]_vars

C10_Witness ==
    /\ call.op = "SetDefaultLevel"
    /\ call.level > LevelDebug
    /\ logLevel = LevelTrace
    /\ defaultLevel = LevelNone

====
